---- MODULE Spec2Model ----
(***************************************************************************)
(* Model of product_cut_sheets_certifications_manager_flask_app.py:        *)
(* the product table, the three upload directories, and the request        *)
(* handlers product_create, product_update, product_delete,                *)
(* download_combined and bulk_download.                                    *)
(*                                                                         *)
(* Text is a sequence of one-character strings, so that strip() and        *)
(* replace() are computed.  Python's None is the value None below.         *)
(* A stored file name is [uid, ext]: the uuid4 part and the lower-cased    *)
(* suffix that _safe_unique_name keeps.  File content is [kind, body]:     *)
(* a well-formed PDF with its pages, a decodable raster image, or bytes    *)
(* that are neither.                                                       *)
(***************************************************************************)
EXTENDS Integers, Sequences, FiniteSets, TLC

\* ---------------------------------------------------------------- bounds
MaxProducts == 2
MaxUid == 4
MaxIds == 2
MaxStreams == 3

\* ---------------------------------------------------------------- values
None == <<"None">>
NoFile == [uid |-> 0, ext |-> ""]
NoBody == [kind |-> "none", body |-> <<>>]

ALLOWED_CUTSHEET_EXT == {".pdf"}
ALLOWED_CERT_EXT == {".pdf", ".png", ".jpg", ".jpeg"}
ALLOWED_IMAGE_EXT == {".png", ".jpg", ".jpeg", ".webp"}

\* str.lower() on the suffixes the inputs use
Lower(e) ==
  CASE e = ".PDF" -> ".pdf"
    [] e = ".PNG" -> ".png"
    [] OTHER -> e

\* _ext_ok(filename, allowed)
ExtOk(upload, allowed) == Lower(upload.ext) \in allowed

\* str.strip()
RECURSIVE StripLeft(_)
StripLeft(s) ==
  IF s = <<>> THEN s
  ELSE IF Head(s) = " " THEN StripLeft(Tail(s)) ELSE s

RECURSIVE StripRight(_)
StripRight(s) ==
  IF s = <<>> THEN s
  ELSE IF s[Len(s)] = " " THEN StripRight(SubSeq(s, 1, Len(s) - 1)) ELSE s

Strip(s) == StripRight(StripLeft(s))

\* str.replace("/", "-")
ReplaceSlash(s) == [i \in 1..Len(s) |-> IF s[i] = "/" THEN "-" ELSE s[i]]

\* Python truthiness of an optional string, and `a or b`
Truthy(s) == s # None /\ s # <<>>
Or(a, b) == IF Truthy(a) THEN a ELSE b

\* (request.form.get(k) or "").strip()
FormText(v) == Strip(Or(v, <<>>))

\* `x or None`
OrNone(s) == IF Truthy(s) THEN s ELSE None

\* ---------------------------------------------------------------- inputs
FormNames == {<<" ">>, <<"a">>}
FormModels == {None, <<"a", "/", "b", " ">>}
FormSkus == {None, <<"a", "/", "b">>}
FormNotes == {<<"n", " ">>}

PdfOne == [kind |-> "pdf", body |-> <<1, 2>>]
PdfTwo == [kind |-> "pdf", body |-> <<3, 4>>]
ImgOne == [kind |-> "img", body |-> <<7>>]
Junk == [kind |-> "junk", body |-> <<>>]

NoUpload == [ext |-> "", data |-> NoBody]
GoodCutsheet == [ext |-> ".pdf", data |-> PdfOne]
JunkCutsheet == [ext |-> ".PDF", data |-> Junk]
PdfCert == [ext |-> ".pdf", data |-> PdfTwo]
ImgCert == [ext |-> ".PNG", data |-> ImgOne]
JunkCert == [ext |-> ".png", data |-> Junk]
BadCert == [ext |-> ".exe", data |-> Junk]
Photo == [ext |-> ".png", data |-> ImgOne]
BadPhoto == [ext |-> ".pdf", data |-> PdfOne]

\* the files of one multipart request: <<cutsheet, cert, image>>
Uploads ==
  {<<NoUpload, NoUpload, NoUpload>>,
   <<GoodCutsheet, NoUpload, NoUpload>>,
   <<GoodCutsheet, PdfCert, Photo>>,
   <<GoodCutsheet, ImgCert, NoUpload>>,
   <<GoodCutsheet, JunkCert, NoUpload>>,
   <<JunkCutsheet, PdfCert, NoUpload>>,
   <<GoodCutsheet, BadCert, NoUpload>>,
   <<NoUpload, PdfCert, BadPhoto>>}

\* `file and file.filename`
Given(upload) == upload # NoUpload

\* ---------------------------------------------------------------- state
VARIABLES
  products,       \* the product table: id -> row
  CUTSHEETS_DIR,  \* uploads/cutsheets: stored name -> content
  CERTS_DIR,      \* uploads/certifications
  IMAGES_DIR,     \* uploads/images
  req,            \* the request last handled
  resp            \* its response

vars == <<products, CUTSHEETS_DIR, CERTS_DIR, IMAGES_DIR, req, resp>>

Ids == DOMAIN products

Max(S) == CHOOSE x \in S : \A y \in S : y <= x

\* id of an inserted row: INTEGER PRIMARY KEY without AUTOINCREMENT
NewId == IF Ids = {} THEN 1 ELSE Max(Ids) + 1

\* Product.cutsheet_path / cert_path / image_path and Path.exists()
HasCutsheet(p) == p.cutsheet_filename # NoFile /\ p.cutsheet_filename \in DOMAIN CUTSHEETS_DIR
HasCert(p) == p.cert_filename # NoFile /\ p.cert_filename \in DOMAIN CERTS_DIR
HasImage(p) == p.image_filename # NoFile /\ p.image_filename \in DOMAIN IMAGES_DIR

\* uuid4(): a value that no stored file and no row carries.  The real value
\* differs from every value ever generated; a value that nothing in the state
\* remembers is indistinguishable from it, so the smallest such is taken.
Uuid4(used) == CHOOSE u \in 1..(Cardinality(used) + 1) : u \notin used

\* _safe_unique_name
SafeUniqueName(upload, used) == [uid |-> Uuid4(used), ext |-> Lower(upload.ext)]

\* f with key k added or overwritten
Put(f, k, v) == [x \in DOMAIN f \cup {k} |-> IF x = k THEN v ELSE f[x]]
\* f without the keys in ks
Drop(f, ks) == [x \in DOMAIN f \ ks |-> f[x]]

\* a response: status, flash or error text, and for a download its name and
\* either a document (body) or the entries of a zip archive (archive);
\* unclosed is the number of io.BytesIO source streams that the handler
\* opened and has not closed when it returns
Response(op, status, msg, body) ==
  [op |-> op, status |-> status, msg |-> msg, body |-> body,
   archive |-> <<>>, download_name |-> <<>>, unclosed |-> 0]

Idle == [op |-> "none"]
NoResponse == Response("none", 0, "", NoBody)

Init ==
  /\ products = <<>>
  /\ CUTSHEETS_DIR = <<>>
  /\ CERTS_DIR = <<>>
  /\ IMAGES_DIR = <<>>
  /\ req = Idle
  /\ resp = NoResponse

\* ---------------------------------------------------------------- uploads
\* The file-system effects of a handler are threaded through a record
\* [cut, cert, img, raised, cutsheet_filename, cert_filename,
\* image_filename]: the three directories, whether a
\* ValueError has been raised, and the names assigned so far.
\* the uuid values carried by a stored file or by a row
RowNames ==
  UNION {{products[i].cutsheet_filename, products[i].cert_filename,
          products[i].image_filename} : i \in DOMAIN products}
Used(st) ==
  {n.uid : n \in (DOMAIN st.cut \cup DOMAIN st.cert \cup DOMAIN st.img
                  \cup RowNames) \ {NoFile}}

Start(p) ==
  [cut |-> CUTSHEETS_DIR, cert |-> CERTS_DIR, img |-> IMAGES_DIR,
   raised |-> FALSE,
   cutsheet_filename |-> p.cutsheet_filename,
   cert_filename |-> p.cert_filename,
   image_filename |-> p.image_filename]

NoRow ==
  [name |-> <<>>, sku |-> None, model_number |-> None, notes |-> None,
   cutsheet_filename |-> NoFile, cert_filename |-> NoFile,
   image_filename |-> NoFile]

\* product_create, `if cutsheet_file and cutsheet_file.filename:` block
CreateCutsheet(st, upload) ==
  IF st.raised \/ ~Given(upload) THEN st
  ELSE IF ~ExtOk(upload, ALLOWED_CUTSHEET_EXT) THEN [st EXCEPT !.raised = TRUE]
  ELSE LET n == SafeUniqueName(upload, Used(st))
       IN [st EXCEPT !.cut = Put(@, n, upload.data),
                     !.cutsheet_filename = n]

\* product_create, `if cert_file and cert_file.filename:` block
CreateCert(st, upload) ==
  IF st.raised \/ ~Given(upload) THEN st
  ELSE IF ~ExtOk(upload, ALLOWED_CERT_EXT) THEN [st EXCEPT !.raised = TRUE]
  ELSE LET n == SafeUniqueName(upload, Used(st))
       IN [st EXCEPT !.cert = Put(@, n, upload.data),
                     !.cert_filename = n]

\* product_create, `if image_file and image_file.filename:` block
CreateImage(st, upload) ==
  IF st.raised \/ ~Given(upload) THEN st
  ELSE IF ~ExtOk(upload, ALLOWED_IMAGE_EXT) THEN [st EXCEPT !.raised = TRUE]
  ELSE LET n == SafeUniqueName(upload, Used(st))
       IN [st EXCEPT !.img = Put(@, n, upload.data),
                     !.image_filename = n]

\* product_update, cutsheet replacement block
UpdateCutsheet(st, upload) ==
  IF st.raised \/ ~Given(upload) THEN st
  ELSE IF ~ExtOk(upload, ALLOWED_CUTSHEET_EXT) THEN [st EXCEPT !.raised = TRUE]
  ELSE LET n == SafeUniqueName(upload, Used(st))
           unlinked == Drop(st.cut, {st.cutsheet_filename})
       IN [st EXCEPT !.cut = Put(unlinked, n, upload.data),
                     !.cutsheet_filename = n]

\* product_update, certification replacement block
UpdateCert(st, upload) ==
  IF st.raised \/ ~Given(upload) THEN st
  ELSE IF ~ExtOk(upload, ALLOWED_CERT_EXT) THEN [st EXCEPT !.raised = TRUE]
  ELSE LET n == SafeUniqueName(upload, Used(st))
           unlinked == Drop(st.cert, {st.cert_filename})
       IN [st EXCEPT !.cert = Put(unlinked, n, upload.data),
                     !.cert_filename = n]

\* product_update, image replacement block
UpdateImage(st, upload) ==
  IF st.raised \/ ~Given(upload) THEN st
  ELSE IF ~ExtOk(upload, ALLOWED_IMAGE_EXT) THEN [st EXCEPT !.raised = TRUE]
  ELSE LET n == SafeUniqueName(upload, Used(st))
           unlinked == Drop(st.img, {st.image_filename})
       IN [st EXCEPT !.img = Put(unlinked, n, upload.data),
                     !.image_filename = n]

\* the directories after the handler's file operations
Commit(st) ==
  /\ Cardinality(Used(st)) <= MaxUid
  /\ CUTSHEETS_DIR' = st.cut
  /\ CERTS_DIR' = st.cert
  /\ IMAGES_DIR' = st.img

\* ---------------------------------------------------------------- CRUD
\* POST /product/create
ProductCreate(name_in, model_in, sku_in, notes_in, cs, ce, im) ==
  LET name == FormText(name_in)
      model_number == FormText(Or(model_in, sku_in))
      notes == FormText(notes_in)
      st == CreateImage(CreateCert(CreateCutsheet(Start(NoRow), cs), ce), im)
      row == [name |-> name, sku |-> OrNone(model_number),
              model_number |-> OrNone(model_number), notes |-> OrNone(notes),
              cutsheet_filename |-> st.cutsheet_filename,
              cert_filename |-> st.cert_filename,
              image_filename |-> st.image_filename]
  IN /\ req = Idle
     /\ req' = [op |-> "create"]
     /\ IF ~Truthy(name)
        THEN /\ resp' = Response("create", 302, "Name is required", NoBody)
             /\ UNCHANGED <<products, CUTSHEETS_DIR, CERTS_DIR, IMAGES_DIR>>
        ELSE /\ Commit(st)
             /\ IF st.raised
                THEN /\ resp' = Response("create", 500, "ValueError", NoBody)
                     /\ UNCHANGED products
                ELSE /\ NewId <= MaxProducts
                     /\ products' = Put(products, NewId, row)
                     /\ resp' = Response("create", 302, "Product created", NoBody)

\* an update that stores the submitted name as it is, blank or not
ProductUpdateAnyName(pid, name_in, model_in, sku_in, notes_in, cs, ce, im) ==
  /\ req = Idle
  /\ req' = [op |-> "update", pid |-> pid]
  /\ IF pid \notin Ids
     THEN /\ resp' = Response("update", 404, "Not Found", NoBody)
          /\ UNCHANGED <<products, CUTSHEETS_DIR, CERTS_DIR, IMAGES_DIR>>
     ELSE LET p == products[pid]
              name == FormText(name_in)
              new_model == OrNone(FormText(Or(model_in, sku_in)))
              notes == OrNone(FormText(notes_in))
              st == UpdateImage(UpdateCert(UpdateCutsheet(Start(p), cs), ce), im)
              row == [name |-> name, sku |-> new_model,
                      model_number |-> new_model, notes |-> notes,
                      cutsheet_filename |-> st.cutsheet_filename,
                      cert_filename |-> st.cert_filename,
                      image_filename |-> st.image_filename]
          IN /\ Commit(st)
             /\ IF st.raised
                THEN /\ resp' = Response("update", 500, "ValueError", NoBody)
                     /\ UNCHANGED products
                ELSE /\ products' = [products EXCEPT ![pid] = row]
                     /\ resp' = Response("update", 302, "Product updated", NoBody)

\* POST /product/<pid>/update
ProductUpdate(pid, name_in, model_in, sku_in, notes_in, cs, ce, im) ==
  /\ req = Idle
  /\ req' = [op |-> "update", pid |-> pid]
  /\ IF pid \notin Ids
     THEN /\ resp' = Response("update", 404, "Not Found", NoBody)
          /\ UNCHANGED <<products, CUTSHEETS_DIR, CERTS_DIR, IMAGES_DIR>>
     ELSE LET p == products[pid]
              name == Or(FormText(name_in), p.name)
              new_model == OrNone(FormText(Or(model_in, sku_in)))
              notes == OrNone(FormText(notes_in))
              st == UpdateImage(UpdateCert(UpdateCutsheet(Start(p), cs), ce), im)
              row == [name |-> name, sku |-> new_model,
                      model_number |-> new_model, notes |-> notes,
                      cutsheet_filename |-> st.cutsheet_filename,
                      cert_filename |-> st.cert_filename,
                      image_filename |-> st.image_filename]
          IN /\ Commit(st)
             /\ IF st.raised
                THEN /\ resp' = Response("update", 500, "ValueError", NoBody)
                     /\ UNCHANGED products
                ELSE /\ products' = [products EXCEPT ![pid] = row]
                     /\ resp' = Response("update", 302, "Product updated", NoBody)

\* POST /product/<pid>/delete
ProductDelete(pid) ==
  /\ req = Idle
  /\ req' = [op |-> "delete", pid |-> pid]
  /\ IF pid \notin Ids
     THEN /\ resp' = Response("delete", 404, "Not Found", NoBody)
          /\ UNCHANGED <<products, CUTSHEETS_DIR, CERTS_DIR, IMAGES_DIR>>
     ELSE LET p == products[pid]
          IN /\ CUTSHEETS_DIR' = Drop(CUTSHEETS_DIR, {p.cutsheet_filename})
             /\ CERTS_DIR' = Drop(CERTS_DIR, {p.cert_filename})
             /\ IMAGES_DIR' = Drop(IMAGES_DIR, {p.image_filename})
             /\ products' = Drop(products, {pid})
             /\ resp' = Response("delete", 302, "Product deleted", NoBody)

\* ---------------------------------------------------------------- documents
\* the outcome of a call: a value, or the exception it raised
Ok(v) == [ok |-> TRUE, val |-> v, err |-> ""]
Raise(e) == [ok |-> FALSE, val |-> NoBody, err |-> e]

\* _image_to_pdf_bytes: one page showing the image (page -n shows image n)
ImageToPdfBytes(data) ==
  IF data.kind = "img"
  THEN Ok([kind |-> "pdf", body |-> [i \in 1..Len(data.body) |-> 0 - data.body[i]]])
  ELSE Raise("UnidentifiedImageError")

\* a conversion that reads every certification verbatim
CertAsPdfStreamVerbatim(p) ==
  IF ~HasCert(p) THEN Raise("Certification file missing.")
  ELSE Ok(CERTS_DIR[p.cert_filename])

\* _cert_as_pdf_stream
CertAsPdfStream(p) ==
  IF ~HasCert(p) THEN Raise("Certification file missing.")
  ELSE IF Lower(p.cert_filename.ext) = ".pdf" THEN Ok(CERTS_DIR[p.cert_filename])
  ELSE ImageToPdfBytes(CERTS_DIR[p.cert_filename])

\* a merger that puts each appended stream in front of the pages so far
RECURSIVE MergeIntoReversed(_, _)
MergeIntoReversed(pages, streams) ==
  IF streams = <<>> THEN Ok([kind |-> "pdf", body |-> pages])
  ELSE IF Head(streams).kind # "pdf" THEN Raise("PdfReadError")
  ELSE MergeIntoReversed(Head(streams).body \o pages, Tail(streams))

\* _merge_pdfs_stream: PdfReader(s) of each stream appended in turn
RECURSIVE MergeInto(_, _)
MergeInto(pages, streams) ==
  IF streams = <<>> THEN Ok([kind |-> "pdf", body |-> pages])
  ELSE IF Head(streams).kind # "pdf" THEN Raise("PdfReadError")
  ELSE MergeInto(pages \o Head(streams).body, Tail(streams))

MergePdfsStream(streams) == MergeInto(<<>>, streams)

\* `[io.BytesIO(cspath.read_bytes()), _cert_as_pdf_stream(p)]` then the merge
Combine(p) ==
  LET cert == CertAsPdfStream(p)
  IN IF ~cert.ok THEN cert
     ELSE MergePdfsStream(<<CUTSHEETS_DIR[p.cutsheet_filename], cert.val>>)

\* the source streams opened for p's combined document, in the order of
\* their creation: io.BytesIO(cspath.read_bytes()), then the stream that
\* _cert_as_pdf_stream returns (none when it raises)
SourceStreams(p) ==
  LET cert == CertAsPdfStream(p)
  IN IF cert.ok THEN <<CUTSHEETS_DIR[p.cutsheet_filename], cert.val>>
     ELSE <<CUTSHEETS_DIR[p.cutsheet_filename]>>

\* how many of the opened streams have had no close() call
Unclosed(opened, closed) == Len(opened) - Len(closed)

\* `p.model_number or p.sku or p.name`
DownloadLabel(p) == Or(Or(p.model_number, p.sku), p.name)

\* a handler that checks the certification before the cutsheet
DownloadCombinedCertFirst(pid) ==
  /\ req = Idle
  /\ req' = [op |-> "combined", pid |-> pid]
  /\ UNCHANGED <<products, CUTSHEETS_DIR, CERTS_DIR, IMAGES_DIR>>
  /\ IF pid \notin Ids
     THEN resp' = Response("combined", 404, "Not Found", NoBody)
     ELSE LET p == products[pid]
              combined == Combine(p)
          IN IF ~HasCert(p)
             THEN resp' = Response("combined", 404,
                            "Certification file is required to create combined file.",
                            NoBody)
             ELSE IF ~HasCutsheet(p)
             THEN resp' = Response("combined", 404,
                            "Cutsheet is required to create combined file.", NoBody)
             ELSE IF ~combined.ok
             THEN resp' = Response("combined", 500, combined.err, NoBody)
             ELSE resp' = [Response("combined", 200, "", combined.val)
                             EXCEPT !.download_name =
                                      <<DownloadLabel(p), <<"-combined.pdf">>>>]

\* GET /download/combined/<pid>.  Every stream opened is appended to
\* `streams`, and the `finally` block closes each element of `streams`.
DownloadCombined(pid) ==
  /\ req = Idle
  /\ req' = [op |-> "combined", pid |-> pid]
  /\ UNCHANGED <<products, CUTSHEETS_DIR, CERTS_DIR, IMAGES_DIR>>
  /\ IF pid \notin Ids
     THEN resp' = Response("combined", 404, "Not Found", NoBody)
     ELSE LET p == products[pid]
              combined == Combine(p)
              streams == SourceStreams(p)
              left == Unclosed(SourceStreams(p), streams)
          IN IF ~HasCutsheet(p)
             THEN resp' = Response("combined", 404,
                            "Cutsheet is required to create combined file.", NoBody)
             ELSE IF ~HasCert(p)
             THEN resp' = Response("combined", 404,
                            "Certification file is required to create combined file.",
                            NoBody)
             ELSE IF ~combined.ok
             THEN resp' = [Response("combined", 500, combined.err, NoBody)
                             EXCEPT !.unclosed = left]
             ELSE resp' = [Response("combined", 200, "", combined.val)
                             EXCEPT !.download_name =
                                      <<DownloadLabel(p), <<"-combined.pdf">>>>,
                                    !.unclosed = left]

\* ---------------------------------------------------------------- bulk
DigitChars == <<"0", "1", "2", "3", "4", "5", "6", "7", "8", "9">>
ParseError == 0 - 1

\* int(sid): the value of a string of decimal digits, ValueError otherwise
RECURSIVE IntFrom(_, _)
IntFrom(acc, s) ==
  IF s = <<>> THEN acc
  ELSE IF \E d \in 1..10 : DigitChars[d] = Head(s)
       THEN IntFrom(acc * 10 + ((CHOOSE d \in 1..10 : DigitChars[d] = Head(s)) - 1),
                    Tail(s))
       ELSE ParseError

ParseInt(s) == IF s = <<>> THEN ParseError ELSE IntFrom(0, s)

\* a label that keeps the '/' of the record's text
BulkLabelKeepSlash(p) == Strip(Or(Or(p.model_number, p.sku), p.name))

\* `(p.model_number or p.sku or p.name).strip().replace("/", "-")`
BulkLabel(p) == ReplaceSlash(Strip(Or(Or(p.model_number, p.sku), p.name)))

\* an archive entry: arcname `{folder}/{stem}{tail}`, the bytes written (data)
\* or the text written (text); `at` records the position in ids of the
\* identifier it was written for
Entry(at, label, stem, tail, data, text) ==
  [at |-> at, folder |-> label, stem |-> stem, tail |-> tail,
   data |-> data, text |-> text]

\* a loop body that records a missing input of a combined entry as an error
BulkEntriesMarkMissing(at, action, p) ==
  LET label == BulkLabel(p)
      combined == Combine(p)
  IN CASE action = "cutsheet" ->
            IF HasCutsheet(p)
            THEN <<Entry(at, label, <<>>, <<"cutsheet.pdf">>,
                         CUTSHEETS_DIR[p.cutsheet_filename], <<>>)>>
            ELSE <<>>
       [] action = "cert" ->
            IF HasCert(p)
            THEN <<Entry(at, label, <<>>, <<"cert", Lower(p.cert_filename.ext)>>,
                         CERTS_DIR[p.cert_filename], <<>>)>>
            ELSE <<>>
       [] action = "combined" ->
            IF HasCutsheet(p) /\ HasCert(p) /\ combined.ok
            THEN <<Entry(at, label, label, <<"-combined.pdf">>,
                         combined.val, <<>>)>>
            ELSE IF HasCutsheet(p) /\ HasCert(p)
            THEN <<Entry(at, label, <<>>, <<"ERROR.txt">>, NoBody,
                         <<"Failed to process: ", combined.err>>)>>
            ELSE <<Entry(at, label, <<>>, <<"ERROR.txt">>, NoBody,
                         <<"Failed to process: ", "Certification file missing.">>)>>
       [] OTHER -> <<>>

\* the entries one pass of the loop body adds for product p
BulkEntries(at, action, p) ==
  LET label == BulkLabel(p)
      combined == Combine(p)
  IN CASE action = "cutsheet" ->
            IF HasCutsheet(p)
            THEN <<Entry(at, label, <<>>, <<"cutsheet.pdf">>,
                         CUTSHEETS_DIR[p.cutsheet_filename], <<>>)>>
            ELSE <<>>
       [] action = "cert" ->
            IF HasCert(p)
            THEN <<Entry(at, label, <<>>, <<"cert", Lower(p.cert_filename.ext)>>,
                         CERTS_DIR[p.cert_filename], <<>>)>>
            ELSE <<>>
       [] action = "combined" ->
            IF HasCutsheet(p) /\ HasCert(p)
            THEN IF combined.ok
                 THEN <<Entry(at, label, label, <<"-combined.pdf">>,
                              combined.val, <<>>)>>
                 ELSE <<Entry(at, label, <<>>, <<"ERROR.txt">>, NoBody,
                              <<"Failed to process: ", combined.err>>)>>
            ELSE <<>>
       [] OTHER -> <<>>

IsErrorEntry(e) == e.tail = <<"ERROR.txt">>

\* a loop without the try block: the first exception ends the loop
RECURSIVE BulkLoopAbort(_, _, _, _)
BulkLoopAbort(zf, at, action, ids) ==
  IF at > Len(ids) THEN [raised |-> FALSE, zf |-> zf]
  ELSE LET pid == ParseInt(ids[at])
           new == BulkEntries(at, action, products[pid])
       IN IF pid = ParseError THEN [raised |-> TRUE, zf |-> zf]
          ELSE IF pid \notin Ids THEN BulkLoopAbort(zf, at + 1, action, ids)
          ELSE IF \E k \in 1..Len(new) : IsErrorEntry(new[k])
          THEN [raised |-> FALSE, zf |-> zf \o new]
          ELSE BulkLoopAbort(zf \o new, at + 1, action, ids)

\* a loop that reports an identifier without a record as an error entry
RECURSIVE BulkLoopReportMissing(_, _, _, _)
BulkLoopReportMissing(zf, at, action, ids) ==
  IF at > Len(ids) THEN [raised |-> FALSE, zf |-> zf]
  ELSE LET pid == ParseInt(ids[at])
       IN IF pid = ParseError THEN [raised |-> TRUE, zf |-> zf]
          ELSE IF pid \notin Ids
          THEN BulkLoopReportMissing(
                 Append(zf, Entry(at, ids[at], <<>>, <<"ERROR.txt">>, NoBody,
                                  <<"Failed to process: ", "Not Found">>)),
                 at + 1, action, ids)
          ELSE BulkLoopReportMissing(zf \o BulkEntries(at, action, products[pid]),
                                     at + 1, action, ids)

\* the entries of zf that no entry of new has the arcname of
KeepOthers(zf, new) ==
  SelectSeq(zf, LAMBDA e : \A k \in 1..Len(new) :
                            <<e.folder, e.stem, e.tail>>
                              # <<new[k].folder, new[k].stem, new[k].tail>>)

\* a loop whose archive holds one entry per arcname: a later one replaces it
RECURSIVE BulkLoopOverwrite(_, _, _, _)
BulkLoopOverwrite(zf, at, action, ids) ==
  IF at > Len(ids) THEN [raised |-> FALSE, zf |-> zf]
  ELSE LET pid == ParseInt(ids[at])
           new == BulkEntries(at, action, products[pid])
       IN IF pid = ParseError THEN [raised |-> TRUE, zf |-> zf]
          ELSE IF pid \notin Ids THEN BulkLoopOverwrite(zf, at + 1, action, ids)
          ELSE BulkLoopOverwrite(KeepOthers(zf, new) \o new, at + 1, action, ids)

\* `for sid in ids:` from position `at` on; zf is the archive so far.
\* int(sid) is evaluated outside the try block: its ValueError ends the request.
RECURSIVE BulkLoop(_, _, _, _)
BulkLoop(zf, at, action, ids) ==
  IF at > Len(ids) THEN [raised |-> FALSE, zf |-> zf]
  ELSE LET pid == ParseInt(ids[at])
       IN IF pid = ParseError THEN [raised |-> TRUE, zf |-> zf]
          ELSE IF pid \notin Ids THEN BulkLoop(zf, at + 1, action, ids)
          ELSE BulkLoop(zf \o BulkEntries(at, action, products[pid]),
                        at + 1, action, ids)

\* the source streams that the loop from position `at` on leaves open: the
\* combined branch binds them to `streams` and never closes them
RECURSIVE BulkUnclosed(_, _, _)
BulkUnclosed(at, action, ids) ==
  IF at > Len(ids) THEN 0
  ELSE LET pid == ParseInt(ids[at])
           p == products[pid]
       IN IF pid = ParseError THEN 0
          ELSE IF pid \notin Ids THEN BulkUnclosed(at + 1, action, ids)
          ELSE IF action = "combined" /\ HasCutsheet(p) /\ HasCert(p)
          THEN Unclosed(SourceStreams(p), <<>>) + BulkUnclosed(at + 1, action, ids)
          ELSE BulkUnclosed(at + 1, action, ids)

\* a handler without the `if not ids:` check
BulkDownloadNoCheck(action, ids) ==
  /\ req = Idle
  /\ req' = [op |-> "bulk", action |-> action, ids |-> ids]
  /\ UNCHANGED <<products, CUTSHEETS_DIR, CERTS_DIR, IMAGES_DIR>>
  /\ LET done == BulkLoop(<<>>, 1, action, ids)
     IN IF done.raised
        THEN resp' = Response("bulk", 500, "ValueError", NoBody)
        ELSE resp' = [Response("bulk", 200, "", NoBody)
                        EXCEPT !.archive = done.zf,
                               !.download_name = <<"products-", action, ".zip">>]

\* a handler that removes the files it has packed
BulkDownloadMove(action, ids) ==
  /\ req = Idle
  /\ req' = [op |-> "bulk", action |-> action, ids |-> ids]
  /\ UNCHANGED <<products, IMAGES_DIR>>
  /\ IF ids = <<>>
     THEN /\ resp' = Response("bulk", 302, "No products selected", NoBody)
          /\ UNCHANGED <<CUTSHEETS_DIR, CERTS_DIR>>
     ELSE LET done == BulkLoop(<<>>, 1, action, ids)
              packed == {done.zf[k].data : k \in 1..Len(done.zf)}
          IN /\ CUTSHEETS_DIR' =
                  Drop(CUTSHEETS_DIR,
                       {n \in DOMAIN CUTSHEETS_DIR : CUTSHEETS_DIR[n] \in packed})
             /\ CERTS_DIR' =
                  Drop(CERTS_DIR, {n \in DOMAIN CERTS_DIR : CERTS_DIR[n] \in packed})
             /\ IF done.raised
                THEN resp' = Response("bulk", 500, "ValueError", NoBody)
                ELSE resp' = [Response("bulk", 200, "", NoBody)
                                EXCEPT !.archive = done.zf,
                                       !.download_name = <<"products-", action, ".zip">>]

\* POST /bulk/download
BulkDownload(action, ids) ==
  /\ req = Idle
  /\ req' = [op |-> "bulk", action |-> action, ids |-> ids]
  /\ UNCHANGED <<products, CUTSHEETS_DIR, CERTS_DIR, IMAGES_DIR>>
  /\ IF ids = <<>>
     THEN resp' = Response("bulk", 302, "No products selected", NoBody)
     ELSE LET done == BulkLoop(<<>>, 1, action, ids)
              left == BulkUnclosed(1, action, ids)
          IN IF done.raised
             THEN resp' = [Response("bulk", 500, "ValueError", NoBody)
                             EXCEPT !.unclosed = left]
             ELSE resp' = [Response("bulk", 200, "", NoBody)
                             EXCEPT !.archive = done.zf,
                                    !.download_name = <<"products-", action, ".zip">>,
                                    !.unclosed = left]

\* ---------------------------------------------------------------- requests
Pids == 1..MaxProducts

\* the values of the form's `action` field; "" stands for an absent field
Actions == {"cutsheet", "cert", "combined", ""}

\* the strings a client can put in `ids`
IdTokens == {<<DigitChars[n + 1]>> : n \in Pids} \cup {<<"x">>}

RECURSIVE SeqsUpTo(_, _)
SeqsUpTo(S, n) ==
  IF n = 0 THEN {<<>>}
  ELSE LET shorter == SeqsUpTo(S, n - 1)
       IN shorter \cup {Append(q, x) : q \in shorter, x \in S}

IdLists == SeqsUpTo(IdTokens, MaxIds)

Create ==
  \E n \in FormNames, m \in FormModels, s \in FormSkus, t \in FormNotes,
     f \in Uploads :
    ProductCreate(n, m, s, t, f[1], f[2], f[3])

Update ==
  \E pid \in Pids, n \in FormNames, m \in FormModels, s \in FormSkus,
     t \in FormNotes, f \in Uploads :
    ProductUpdate(pid, n, m, s, t, f[1], f[2], f[3])

Delete == \E pid \in Pids : ProductDelete(pid)

Combined == \E pid \in Pids : DownloadCombined(pid)

Bulk == \E action \in Actions, ids \in IdLists : BulkDownload(action, ids)

\* the response is sent and the server waits for the next request
Respond ==
  /\ req # Idle
  /\ req' = Idle
  /\ resp' = NoResponse
  /\ UNCHANGED <<products, CUTSHEETS_DIR, CERTS_DIR, IMAGES_DIR>>

Next == Create \/ Update \/ Delete \/ Combined \/ Bulk \/ Respond

Spec == Init /\ [][Next]_vars

\* ---------------------------------------------------------------- properties
\* The export handlers leave the table and the directories as they are, so
\* while a response of theirs is pending the state is the one they read.

CombinedDone == req.op = "combined" /\ req.pid \in Ids
BulkDone == req.op = "bulk"

\* the identifiers of the request are all decimal numbers
AllNumeric(ids) == \A i \in 1..Len(ids) : ParseInt(ids[i]) # ParseError

\* position i of the request names a record of the table
Resolves(i) == ParseInt(req.ids[i]) \in Ids
RecordAt(i) == products[ParseInt(req.ids[i])]

\* the indices of the archive entries written for position i of the request
EntriesAt(i) == {k \in 1..Len(resp.archive) : resp.archive[k].at = i}

\* the files that the requested kind needs exist for record p
Required(action, p) ==
  \/ action = "cutsheet" /\ HasCutsheet(p)
  \/ action = "cert" /\ HasCert(p)
  \/ action = "combined" /\ HasCutsheet(p) /\ HasCert(p)

CertIsPdf(p) == p.cert_filename.ext = ".pdf"

\* the certification of p can be turned into a document
CertReadable(p) ==
  CERTS_DIR[p.cert_filename].kind = (IF CertIsPdf(p) THEN "pdf" ELSE "img")

\* both sources of p (which exist) can be read as what their names say
WellFormed(p) ==
  CUTSHEETS_DIR[p.cutsheet_filename].kind = "pdf" /\ CertReadable(p)

\* body is the pages of p's cutsheet followed by those of p's certification
CutsheetThenCert(body, p) ==
  LET cs == CUTSHEETS_DIR[p.cutsheet_filename].body
      ce == CERTS_DIR[p.cert_filename].body
      rest == SubSeq(body, Len(cs) + 1, Len(body))
  IN /\ Len(body) = Len(cs) + Len(ce)
     /\ SubSeq(body, 1, Len(cs)) = cs
     /\ \A i \in 1..Len(ce) : rest[i] = (IF CertIsPdf(p) THEN ce[i] ELSE 0 - ce[i])

CutsheetMissing == "Cutsheet is required to create combined file."
CertMissing == "Certification file is required to create combined file."

C2_CutsheetFirst ==
  /\ (CombinedDone /\ resp.status = 200) =>
        CutsheetThenCert(resp.body.body, products[req.pid])
  /\ (BulkDone /\ resp.status = 200) =>
        \A k \in 1..Len(resp.archive) :
          resp.archive[k].tail = <<"-combined.pdf">> =>
            CutsheetThenCert(resp.archive[k].data.body, RecordAt(resp.archive[k].at))

\* C2 witness: a bulk archive with a combined entry of a record whose
\* certification is an image
C2_Witness ==
  /\ BulkDone
  /\ resp.status = 200
  /\ \E k \in 1..Len(resp.archive) :
       /\ resp.archive[k].tail = <<"-combined.pdf">>
       /\ ~CertIsPdf(RecordAt(resp.archive[k].at))
       /\ Len(resp.archive[k].data.body) = 3

\* C3: bulk_download with an empty ids list answers "No products selected"
\* and returns no archive.
C3_NothingSelected ==
  (BulkDone /\ req.ids = <<>>) =>
    /\ resp.status = 302
    /\ resp.msg = "No products selected"
    /\ resp.archive = <<>>
    /\ resp.download_name = <<>>

\* C3 witness: an empty selection posted while the table holds a record with
\* its files
C3_Witness ==
  /\ BulkDone
  /\ req.ids = <<>>
  /\ req.action = "combined"
  /\ \E pid \in Ids : Required("combined", products[pid])

\* C4 (as stated): every non-empty ids list, whatever the action, gets an
\* archive back.
C4_AsClaimed ==
  (BulkDone /\ req.ids # <<>>) =>
    resp.status = 200 /\ resp.download_name = <<"products-", req.action, ".zip">>

\* the text of the exception that producing p's combined entry raises
Why(p) == IF ~CertReadable(p) /\ ~CertIsPdf(p) THEN "UnidentifiedImageError"
          ELSE "PdfReadError"

\* C5: in a job whose identifiers are numbers, a record whose combined entry
\* cannot be produced gets `{label}/ERROR.txt` with the exception's text, and
\* every other position of the job still has the content entry its record
\* yields.
C5_ErrorIsolated ==
  (BulkDone /\ req.ids # <<>> /\ AllNumeric(req.ids)) =>
    /\ resp.status = 200
    /\ \A i \in 1..Len(req.ids) :
         (/\ Resolves(i)
          /\ Required(req.action, RecordAt(i))
          /\ req.action = "combined"
          /\ ~WellFormed(RecordAt(i))) =>
           /\ \E k \in EntriesAt(i) :
                /\ IsErrorEntry(resp.archive[k])
                /\ resp.archive[k].folder = BulkLabel(RecordAt(i))
                /\ resp.archive[k].stem = <<>>
                /\ resp.archive[k].text = <<"Failed to process: ", Why(RecordAt(i))>>
           /\ \A j \in 1..Len(req.ids) :
                (Resolves(j) /\ Required(req.action, RecordAt(j))
                   /\ WellFormed(RecordAt(j))) =>
                  \E k \in EntriesAt(j) :
                    /\ ~IsErrorEntry(resp.archive[k])
                    /\ CutsheetThenCert(resp.archive[k].data.body, RecordAt(j))

\* C5 witness: the first record of a combined job fails and the second one's
\* combined document is in the archive after the error marker
C5_Witness ==
  /\ BulkDone
  /\ resp.status = 200
  /\ Len(resp.archive) = 2
  /\ IsErrorEntry(resp.archive[1])
  /\ resp.archive[1].at = 1
  /\ resp.archive[2].tail = <<"-combined.pdf">>
  /\ resp.archive[2].at = 2

C7_AsClaimed ==
  (BulkDone /\ resp.status = 200) =>
    \A i \in 1..Len(req.ids) :
      Resolves(i) =>
        /\ ~Required(req.action, RecordAt(i)) => EntriesAt(i) = {}
        /\ (\E k \in EntriesAt(i) : ~IsErrorEntry(resp.archive[k]))
             <=> Required(req.action, RecordAt(i))
        /\ \A k \in EntriesAt(i) :
             IsErrorEntry(resp.archive[k]) =>
               req.action = "combined" /\ ~WellFormed(RecordAt(i))

\* C7 (amended): a record whose required input is missing adds nothing; an
\* entry is written exactly when all required files exist, and it is the
\* content entry unless producing it raises, in which case it is ERROR.txt.
C7_MissingSkipped ==
  (BulkDone /\ resp.status = 200) =>
    \A i \in 1..Len(req.ids) :
      Resolves(i) =>
        /\ ~Required(req.action, RecordAt(i)) => EntriesAt(i) = {}
        /\ Required(req.action, RecordAt(i)) => EntriesAt(i) # {}
        /\ \A k \in EntriesAt(i) :
             IsErrorEntry(resp.archive[k])
               <=> (req.action = "combined" /\ ~WellFormed(RecordAt(i)))

\* C7 witness: a combined job over a record with both files and a record with
\* a cutsheet only returns the first record's combined document and no more
C7_Witness ==
  /\ BulkDone
  /\ req.action = "combined"
  /\ Len(req.ids) = 2
  /\ Resolves(1) /\ Resolves(2)
  /\ Required("combined", RecordAt(1))
  /\ HasCutsheet(RecordAt(2))
  /\ RecordAt(2).cert_filename = NoFile
  /\ Len(resp.archive) = 1
  /\ resp.archive[1].at = 1
  /\ resp.archive[1].tail = <<"-combined.pdf">>

\* C8 (as stated): the archive has exactly one entry for each record of the
\* request that has its required files, and none for any other record.
C8_AsClaimed ==
  (BulkDone /\ resp.status = 200) =>
    \A pid \in Pids :
      LET asked == \E i \in 1..Len(req.ids) : ParseInt(req.ids[i]) = pid
          written == {k \in 1..Len(resp.archive) :
                        ParseInt(req.ids[resp.archive[k].at]) = pid}
      IN Cardinality(written) =
           (IF asked /\ pid \in Ids /\ Required(req.action, products[pid])
            THEN 1 ELSE 0)

\* C9: when two positions of a job name different records with the same
\* label, both records' entries are in the archive under that folder, the
\* earlier one first and still there.
C9_SameLabelCoexist ==
  (BulkDone /\ req.ids # <<>> /\ AllNumeric(req.ids)) =>
    /\ resp.status = 200
    /\ \A i, j \in 1..Len(req.ids) :
         (/\ i < j
          /\ Resolves(i) /\ Resolves(j)
          /\ ParseInt(req.ids[i]) # ParseInt(req.ids[j])
          /\ BulkLabel(RecordAt(i)) = BulkLabel(RecordAt(j))
          /\ Required(req.action, RecordAt(i))
          /\ Required(req.action, RecordAt(j))) =>
           \E k1 \in EntriesAt(i), k2 \in EntriesAt(j) :
             /\ k1 < k2
             /\ resp.archive[k1].folder = BulkLabel(RecordAt(i))
             /\ resp.archive[k2].folder = BulkLabel(RecordAt(i))

\* C9 witness: a cutsheet job over two records with one label and different
\* cutsheets has both files in the archive under the same arcname
C9_Witness ==
  /\ BulkDone
  /\ req.action = "cutsheet"
  /\ Len(resp.archive) = 2
  /\ resp.archive[1].at = 1 /\ resp.archive[2].at = 2
  /\ ParseInt(req.ids[1]) # ParseInt(req.ids[2])
  /\ resp.archive[1].folder = resp.archive[2].folder
  /\ resp.archive[1].tail = resp.archive[2].tail
  /\ resp.archive[1].data # resp.archive[2].data

\* C10: a step of download_combined or bulk_download leaves the product
\* table and the three upload directories unchanged, whatever it answers.
C10_ExportsOnlyRead ==
  [][(req = Idle /\ req'.op \in {"combined", "bulk"}) =>
       /\ products' = products
       /\ CUTSHEETS_DIR' = CUTSHEETS_DIR
       /\ CERTS_DIR' = CERTS_DIR
       /\ IMAGES_DIR' = IMAGES_DIR]_vars

\* C10 witness: an archive with an entry was returned while rows, documents,
\* certifications and photos are stored
C10_Witness ==
  /\ BulkDone
  /\ resp.status = 200
  /\ resp.archive # <<>>
  /\ DOMAIN IMAGES_DIR # {}
  /\ DOMAIN CUTSHEETS_DIR # {}
  /\ DOMAIN CERTS_DIR # {}

\* a reference is absent or names a file of its directory
RefOk(name, dir) == name = NoFile \/ name \in DOMAIN dir

\* C11 (as stated): after any sequence of create, update and delete requests,
\* failed ones included, every row's cutsheet, certification and photo
\* reference is absent or names a file that exists in its directory.
C11_AsClaimed ==
  \A pid \in Ids :
    /\ RefOk(products[pid].cutsheet_filename, CUTSHEETS_DIR)
    /\ RefOk(products[pid].cert_filename, CERTS_DIR)
    /\ RefOk(products[pid].image_filename, IMAGES_DIR)

\* C12 (as stated): when download_combined or bulk_download returns, on any
\* exit path, every source stream it opened for any record has been closed.
C12_AsClaimed ==
  (CombinedDone \/ BulkDone) => resp.unclosed = 0

\* C14 (as stated): every failure of download_combined (missing cutsheet,
\* missing certification, undecodable certification image, malformed
\* cutsheet) ends the request with a not-found response and no document.
C14_AsClaimed ==
  (CombinedDone /\ resp.status # 200) =>
    resp.status = 404 /\ resp.body = NoBody

\* the text a record is known by: its model number if set, else its sku, else
\* its name
KnownBy(p) ==
  IF p.model_number # None /\ p.model_number # <<>> THEN p.model_number
  ELSE IF p.sku # None /\ p.sku # <<>> THEN p.sku
  ELSE p.name

NoSlash(s) == \A i \in 1..Len(s) : s[i] # "/"

\* the literal file names of the loop body
EntryFiles ==
  {<<"cutsheet.pdf">>, <<"cert", ".pdf">>, <<"cert", ".png">>,
   <<"-combined.pdf">>, <<"ERROR.txt">>}

\* C15: every entry of a bulk archive lies in the folder named by its record's
\* label, which is KnownBy stripped with every '/' replaced by '-'; the label
\* of every row is non-empty and has no '/', and the file part of an entry
\* has no '/', so the entry path has exactly one folder level.
C15_OneFolderLevel ==
  /\ \A pid \in Ids :
       /\ BulkLabel(products[pid]) = ReplaceSlash(Strip(KnownBy(products[pid])))
       /\ BulkLabel(products[pid]) # <<>>
       /\ NoSlash(BulkLabel(products[pid]))
  /\ (BulkDone /\ resp.status = 200) =>
       \A k \in 1..Len(resp.archive) :
         LET e == resp.archive[k]
         IN /\ e.folder = ReplaceSlash(Strip(KnownBy(RecordAt(e.at))))
            /\ e.folder # <<>>
            /\ NoSlash(e.folder)
            /\ NoSlash(e.stem)
            /\ e.tail \in EntryFiles

\* C15 witness: a record whose model number holds a '/' has its certification
\* in the archive under the folder with '-' in its place
C15_Witness ==
  /\ BulkDone
  /\ resp.status = 200
  /\ \E k \in 1..Len(resp.archive) :
       /\ RecordAt(resp.archive[k].at).model_number = <<"a", "/", "b">>
       /\ resp.archive[k].folder = <<"a", "-", "b">>
       /\ resp.archive[k].tail = <<"cert", ".png">>
  /\ \E k \in 1..Len(resp.archive) :
       /\ RecordAt(resp.archive[k].at).model_number = None
       /\ resp.archive[k].folder = <<"a">>

\* one page per image of the content, as the normalizer lays them out
Normalized(data) == [kind |-> "pdf", body |-> [i \in 1..Len(data.body) |-> 0 - data.body[i]]]

\* C16: for every row, the certification stream of a combined document is the
\* stored bytes verbatim if and only if the stored extension is .pdf, and is
\* the normalizer's output (or its failure) otherwise; the conversion fails
\* with the file-missing error when the reference is absent or its file is
\* missing; and the cutsheet stream is always the stored bytes verbatim.
C16_CertNormalized ==
  /\ \A pid \in Ids :
       LET p == products[pid]
           r == CertAsPdfStream(p)
       IN /\ ~HasCert(p) =>
               ~r.ok /\ r.err = "Certification file missing." /\ r.val = NoBody
          /\ HasCert(p) =>
               LET stored == CERTS_DIR[p.cert_filename]
               IN /\ (r.ok /\ r.val = stored) <=> (p.cert_filename.ext = ".pdf")
                  /\ (p.cert_filename.ext # ".pdf" /\ stored.kind = "img") =>
                       r.ok /\ r.val = Normalized(stored)
                  /\ (p.cert_filename.ext # ".pdf" /\ stored.kind # "img") =>
                       ~r.ok /\ r.err = "UnidentifiedImageError"
          /\ HasCutsheet(p) =>
               SourceStreams(p)[1] = CUTSHEETS_DIR[p.cutsheet_filename]
  /\ (CombinedDone /\ resp.status = 200) =>
       LET p == products[req.pid]
           cs == CUTSHEETS_DIR[p.cutsheet_filename].body
           ce == CERTS_DIR[p.cert_filename]
       IN resp.body.body =
            cs \o (IF p.cert_filename.ext = ".pdf" THEN ce.body
                   ELSE Normalized(ce).body)

\* C16 witness: a combined document was returned for a record whose
\* certification is a stored .png, with the normalized page after the
\* cutsheet's pages, while another record has no certification reference
C16_Witness ==
  /\ CombinedDone
  /\ resp.status = 200
  /\ products[req.pid].cert_filename.ext = ".png"
  /\ resp.body.body = <<1, 2, 0 - 7>>
  /\ \E pid \in Ids :
       /\ products[pid].cert_filename = NoFile
       /\ ~CertAsPdfStream(products[pid]).ok

\* one category across a step, from directory `dir` and reference `ref` to
\* `dirNext` and `refNext`: no stored file changes content; when a file was
\* stored under a new name, the reference is that name and the file of the
\* old reference is gone; when none was stored, reference and directory are
\* as before
Substituted(dir, dirNext, ref, refNext) ==
  LET new == DOMAIN dirNext \ DOMAIN dir
  IN /\ \A n \in DOMAIN dir \cap DOMAIN dirNext : dirNext[n] = dir[n]
     /\ new # {} => refNext \in new /\ ref \notin DOMAIN dirNext
     /\ new = {} => refNext = ref /\ dirNext = dir

\* C17 (as stated): every update request that stores a replacement file of a
\* category stores it under a new name, removes the record's previous file of
\* that category and leaves the record referring to the new name; the other
\* categories keep reference and file; no stored file's content changes.
C17_AsClaimed ==
  [][(req = Idle /\ req'.op = "update" /\ req'.pid \in Ids) =>
       /\ Substituted(CUTSHEETS_DIR, CUTSHEETS_DIR',
                      products[req'.pid].cutsheet_filename,
                      products'[req'.pid].cutsheet_filename)
       /\ Substituted(CERTS_DIR, CERTS_DIR',
                      products[req'.pid].cert_filename,
                      products'[req'.pid].cert_filename)
       /\ Substituted(IMAGES_DIR, IMAGES_DIR',
                      products[req'.pid].image_filename,
                      products'[req'.pid].image_filename)]_vars

\* C18 (as stated): after any sequence of create, update and delete requests,
\* rejected ones included, every file in the cutsheet, certification and
\* photo directories is referenced by exactly one row.
C18_AsClaimed ==
  /\ \A n \in DOMAIN CUTSHEETS_DIR :
       Cardinality({pid \in Ids : products[pid].cutsheet_filename = n}) = 1
  /\ \A n \in DOMAIN CERTS_DIR :
       Cardinality({pid \in Ids : products[pid].cert_filename = n}) = 1
  /\ \A n \in DOMAIN IMAGES_DIR :
       Cardinality({pid \in Ids : products[pid].image_filename = n}) = 1

\* every row has a non-empty name, and its sku equals its model_number: both
\* None, or both the same non-empty text without surrounding whitespace
RowsNamed ==
  \A pid \in Ids :
    LET p == products[pid]
    IN /\ p.name # None /\ p.name # <<>>
       /\ p.sku = p.model_number
       /\ p.sku # None => p.sku # <<>> /\ Strip(p.sku) = p.sku

\* a create answered "Name is required" adds no row, and an update leaves
\* the row with its previous name or with a submitted one that is not blank
BlankNameStep ==
  /\ (req = Idle /\ req'.op = "create" /\ resp'.msg = "Name is required") =>
       products' = products
  /\ (req = Idle /\ req'.op = "update" /\ resp'.status = 302) =>
       \/ products'[req'.pid].name = products[req'.pid].name
       \/ products'[req'.pid].name \in {FormText(n) : n \in FormNames} \ {<<>>}

\* C19: after any sequence of create and update requests every row has a
\* non-empty name and sku = model_number (both the same stripped non-empty
\* text, or both absent); create rejects a blank name without adding a row,
\* and update keeps the previous name when the submitted one is blank.
C19_NameAndMirror == []RowsNamed /\ [][BlankNameStep]_vars

\* C19 witness: an update went through while one row carries the model number
\* in both fields and another row carries it in neither
C19_Witness ==
  /\ req.op = "update"
  /\ resp.status = 302
  /\ products[req.pid].name = <<"a">>
  /\ \E pid \in Ids :
       /\ products[pid].sku = <<"a", "/", "b">>
       /\ products[pid].model_number = <<"a", "/", "b">>
  /\ \E pid \in Ids :
       products[pid].sku = None /\ products[pid].model_number = None

\* C20 (as stated): bulk_download with a non-empty ids list and an action that
\* is absent or none of cutsheet, cert, combined does not fail: it writes no
\* entry and no ERROR.txt and returns an archive with zero entries.
C20_AsClaimed ==
  (BulkDone /\ req.ids # <<>>
     /\ req.action \notin {"cutsheet", "cert", "combined"}) =>
    /\ resp.status = 200
    /\ resp.archive = <<>>
    /\ resp.download_name = <<"products-", req.action, ".zip">>

\* ---------------------------------------------------------------- assembler
\* _merge_pdfs_stream on its own: the call's argument is drawn in the initial
\* state and one step applies the function.

\* the streams a caller can pass: well-formed PDFs, and bytes PdfReader rejects
StreamBodies == {PdfOne, PdfTwo, ImgOne, Junk}
StreamLists == SeqsUpTo(StreamBodies, MaxStreams)

MergeInit ==
  /\ products = <<>>
  /\ CUTSHEETS_DIR = <<>>
  /\ CERTS_DIR = <<>>
  /\ IMAGES_DIR = <<>>
  /\ req \in {[op |-> "merge", streams |-> q] : q \in StreamLists}
  /\ resp = NoResponse

\* combined = _merge_pdfs_stream(streams)
MergeCall ==
  /\ req.op = "merge"
  /\ resp = NoResponse
  /\ resp' = MergePdfsStream(req.streams)
  /\ UNCHANGED <<products, CUTSHEETS_DIR, CERTS_DIR, IMAGES_DIR, req>>

MergeNext == MergeCall

MergeSpec == MergeInit /\ [][MergeNext]_vars

MergeDone == req.op = "merge" /\ resp # NoResponse

\* C13 (as stated): _merge_pdfs_stream given an empty list fails with the
\* empty-input error and returns no document; given a list with exactly one
\* document d it returns a document equivalent to d.
C13_AsClaimed ==
  MergeDone =>
    /\ req.streams = <<>> =>
          ~resp.ok /\ resp.err = "EmptyInput" /\ resp.val = NoBody
    /\ (Len(req.streams) = 1 /\ req.streams[1].kind = "pdf") =>
          resp.ok /\ resp.val = req.streams[1]

====
